---- MODULE Spec2Model ----
(***************************************************************************)
(* Model of obsidian-tikzjax (src/main.ts): the engine lifecycle across    *)
(* windows, the tikz code block processor, tidyTikzSource and isolateIds.  *)
(* Text is a sequence of one-character strings.                            *)
(***************************************************************************)
EXTENDS Integers, Sequences, FiniteSets, TLC

VARIABLES
    phase,        \* plugin instance: "constructed", "loading", "loaded", "unloaded"
    layoutReady,  \* host: workspace.layoutReady
    pendingReady, \* host: the onLayoutReady callback of onload is queued
    subscribed,   \* host: the "window-open" handler of onload is attached
    wins,         \* host: open windows in getAllWindows order (main first)
    docs,         \* window -> [body: ids of the body's elements, listeners: callbacks]
    thrown,       \* the last plugin call raised (TypeError of s.remove())
    injectCount,  \* window -> number of loadTikZJax calls on its current document
    handlerRuns,  \* runs of postProcessSvg in the last dispatched completion event
    opLog,        \* direct calls harness: the last calls, each with the document before
    source,       \* parser: the code block handed to the processor
    parsed,       \* parser: what the processor produced
    ttext,        \* tidy: current text
    tprev,        \* tidy: text before the last tidyTikzSource call
    tcount,       \* tidy: number of tidyTikzSource calls applied
    graphics,     \* rewriter: graphic -> [rootId, children] as the engine/handler left it
    gorig,        \* rewriter: graphic -> the graphic as the engine produced it
    isolated,     \* rewriter: graphic -> isolateIds has run on it
    assigned,     \* rewriter: graphic -> the uuids generated for its elements, in order
    uuidCount,    \* rewriter: number of uuids generated so far
    settings,     \* this.settings: [invertColorsInDarkMode]
    reqState,     \* render request -> its position in the pipeline
    reqWin,       \* render request -> the window whose document holds it
    fired,        \* render request -> the engine has dispatched its completion event
    stageLog,     \* render request -> the stages the handler has applied, in order
    docWrites,    \* render request -> assignments the handler made to the document
    hfault        \* render request -> the handler ended with a fault

lifeVars == <<phase, layoutReady, pendingReady, subscribed, wins, docs, thrown,
              injectCount, handlerRuns, opLog>>
parseVars == <<source, parsed, ttext, tprev, tcount>>
isoVars == <<graphics, gorig, isolated, assigned, uuidCount>>
renderVars == <<settings, reqState, reqWin, fired, stageLog, docWrites, hfault>>
vars == <<lifeVars, parseVars, isoVars, renderVars>>

----------------------------------------------------------------------------
(* Bounds *)
MaxWindows == 3      \* windows open at once, main included
MaxScripts == 2      \* script elements a document may hold (direct calls)
LogLen == 3          \* direct calls remembered in opLog
MaxLines == 3        \* lines of a code block
MaxTidy == 2         \* successive tidyTikzSource calls
NumGraphics == 2     \* graphics rendered into one document
NumRequests == 2     \* render requests in flight

WinIds == {"main", "w1", "w2", "w3"}
ScriptId == "tikzjax"
Handler == "postProcessSvg"

----------------------------------------------------------------------------
(* Generic sequence helpers *)
Range(s) == {s[i] : i \in 1..Len(s)}

RemoveAt(s, i) == SubSeq(s, 1, i - 1) \o SubSeq(s, i + 1, Len(s))

\* index of the first element equal to x, 0 when absent
IndexOf(s, x) ==
    IF \E i \in 1..Len(s) : s[i] = x
    THEN CHOOSE i \in 1..Len(s) : s[i] = x /\ \A j \in 1..(i - 1) : s[j] # x
    ELSE 0

Count(s, x) == Cardinality({i \in 1..Len(s) : s[i] = x})

----------------------------------------------------------------------------
(* Documents *)
EmptyDoc == [body |-> <<>>, listeners |-> <<>>]

\* variant: every call appends a listener
AddEventListenerAlways(ls, cb) == Append(ls, cb)

\* EventTarget.addEventListener: a listener with the same type and callback is
\* not added again
AddEventListener(ls, cb) == IF cb \in Range(ls) THEN ls ELSE Append(ls, cb)

RemoveEventListener(ls, cb) ==
    IF IndexOf(ls, cb) = 0 THEN ls ELSE RemoveAt(ls, IndexOf(ls, cb))

\* variant: the script element is appended and no listener is registered
loadTikZJaxNoListener(d) ==
    [body |-> Append(d.body, ScriptId), listeners |-> d.listeners]

\* loadTikZJax(doc): append the script element, register the listener
loadTikZJax(d) ==
    [body |-> Append(d.body, ScriptId),
     listeners |-> AddEventListener(d.listeners, Handler)]

\* variant: a missing script element is skipped (s?.remove()) without a fault
unloadTikZJaxBenign(d) ==
    [doc |-> [body |-> IF IndexOf(d.body, ScriptId) = 0 THEN d.body
                       ELSE RemoveAt(d.body, IndexOf(d.body, ScriptId)),
              listeners |-> RemoveEventListener(d.listeners, Handler)],
     thrown |-> FALSE]

\* variant: the script element is removed and the listener is left registered
unloadTikZJaxKeepListener(d) ==
    IF IndexOf(d.body, ScriptId) = 0
    THEN [doc |-> d, thrown |-> TRUE]
    ELSE [doc |-> [body |-> RemoveAt(d.body, IndexOf(d.body, ScriptId)),
                   listeners |-> d.listeners],
          thrown |-> FALSE]

\* unloadTikZJax(doc): getElementById gives the first element with the id,
\* or null, and s.remove() on null throws before removeEventListener
unloadTikZJax(d) ==
    IF IndexOf(d.body, ScriptId) = 0
    THEN [doc |-> d, thrown |-> TRUE]
    ELSE [doc |-> [body |-> RemoveAt(d.body, IndexOf(d.body, ScriptId)),
                   listeners |-> RemoveEventListener(d.listeners, Handler)],
          thrown |-> FALSE]

\* getAllWindows(): the main window, then the floating split's windows
getAllWindows == wins

\* loadTikZJaxAllWindows(): loadTikZJax on every enumerated window
RECURSIVE LoadEach(_, _)
LoadEach(ws, ds) ==
    IF ws = <<>> THEN ds
    ELSE LoadEach(Tail(ws), [ds EXCEPT ![Head(ws)] = loadTikZJax(ds[Head(ws)])])

loadTikZJaxAllWindows(ds) == LoadEach(getAllWindows, ds)

\* variant: the loop leaves after the first window
UnloadFirstOnly(ws, ds) ==
    IF ws = <<>> THEN [docs |-> ds, thrown |-> FALSE]
    ELSE LET r == unloadTikZJax(ds[Head(ws)])
         IN IF r.thrown THEN [docs |-> ds, thrown |-> TRUE]
            ELSE [docs |-> [ds EXCEPT ![Head(ws)] = r.doc], thrown |-> FALSE]

\* unloadTikZJaxAllWindows(): the loop ends at the first throw
RECURSIVE UnloadEach(_, _)
UnloadEach(ws, ds) ==
    IF ws = <<>> THEN [docs |-> ds, thrown |-> FALSE]
    ELSE LET r == unloadTikZJax(ds[Head(ws)])
         IN IF r.thrown THEN [docs |-> ds, thrown |-> TRUE]
            ELSE UnloadEach(Tail(ws), [ds EXCEPT ![Head(ws)] = r.doc])

unloadTikZJaxAllWindows(ds) == UnloadEach(getAllWindows, ds)

CountLoads(ic) == [w \in WinIds |-> IF w \in Range(wins) THEN ic[w] + 1 ELSE ic[w]]

----------------------------------------------------------------------------
(* Text functions of the JavaScript string library, as main.ts uses them *)

Newline == "\n"
Nbsp == <<"&", "n", "b", "s", "p", ";">>
IsWs(c) == c \in {" ", "\t"}

RECURSIVE TrimStart(_)
TrimStart(s) == IF s # <<>> /\ IsWs(Head(s)) THEN TrimStart(Tail(s)) ELSE s

RECURSIVE TrimEnd(_)
TrimEnd(s) ==
    IF s # <<>> /\ IsWs(s[Len(s)]) THEN TrimEnd(SubSeq(s, 1, Len(s) - 1)) ELSE s

Trim(s) == TrimEnd(TrimStart(s))

StartsWith(s, p) == Len(s) >= Len(p) /\ SubSeq(s, 1, Len(p)) = p

\* String.prototype.split(sep) for a one-character separator
RECURSIVE SplitAcc(_, _, _)
SplitAcc(s, sep, cur) ==
    IF s = <<>> THEN <<cur>>
    ELSE IF Head(s) = sep THEN <<cur>> \o SplitAcc(Tail(s), sep, <<>>)
    ELSE SplitAcc(Tail(s), sep, Append(cur, Head(s)))

Split(s, sep) == SplitAcc(s, sep, <<>>)

\* Array.prototype.join(sep)
RECURSIVE Join(_, _)
Join(ls, sep) ==
    IF ls = <<>> THEN <<>>
    ELSE IF Len(ls) = 1 THEN ls[1]
    ELSE ls[1] \o sep \o Join(Tail(ls), sep)

\* String.prototype.replaceAll(pat, rep) for a string pattern: one pass, left
\* to right, over non-overlapping matches; an empty pattern matches between
\* all characters
RECURSIVE ReplaceNonEmpty(_, _, _)
ReplaceNonEmpty(s, pat, rep) ==
    IF Len(s) < Len(pat) THEN s
    ELSE IF SubSeq(s, 1, Len(pat)) = pat
    THEN rep \o ReplaceNonEmpty(SubSeq(s, Len(pat) + 1, Len(s)), pat, rep)
    ELSE <<Head(s)>> \o ReplaceNonEmpty(Tail(s), pat, rep)

RECURSIVE Intersperse(_, _)
Intersperse(s, rep) ==
    IF s = <<>> THEN rep ELSE rep \o <<Head(s)>> \o Intersperse(Tail(s), rep)

ReplaceAll(s, pat, rep) ==
    IF pat = <<>> THEN Intersperse(s, rep) ELSE ReplaceNonEmpty(s, pat, rep)

\* Array.prototype.filter
RECURSIVE FilterNonEmpty(_)
FilterNonEmpty(ls) ==
    IF ls = <<>> THEN <<>>
    ELSE IF Head(ls) = <<>> THEN FilterNonEmpty(Tail(ls))
    ELSE <<Head(ls)>> \o FilterNonEmpty(Tail(ls))

\* tidyTikzSource (main.ts 142-159)
tidyTikzSource(tikzSource) ==
    LET removed == ReplaceAll(tikzSource, Nbsp, <<>>)
        lines == Split(removed, Newline)
        trimmed == [i \in 1..Len(lines) |-> Trim(lines[i])]
    IN Join(FilterNonEmpty(trimmed), <<Newline>>)

----------------------------------------------------------------------------
(* The "tikz" code block processor (main.ts 97-128) *)

\* variant: the predicate without trimStart()
IsCodeLineNoTrim(line) == ~StartsWith(line, <<"%">>)

\* the predicate of findIndex: line => !line.trimStart().startsWith("%")
IsCodeLine(line) == ~StartsWith(TrimStart(line), <<"%">>)

\* lines.findIndex(...): 0-based index of the first match, -1 when none
FindCodeStart(lines) ==
    IF \E i \in 1..Len(lines) : IsCodeLine(lines[i])
    THEN (CHOOSE i \in 1..Len(lines) :
            IsCodeLine(lines[i]) /\ \A j \in 1..(i - 1) : ~IsCodeLine(lines[j])) - 1
    ELSE -1

\* Array.prototype.slice(from, to) with 0-based from, exclusive to
Slice(ls, from, to) == SubSeq(ls, from + 1, to)

\* line.replace(/^%\s*/, "").trim()
CssText(line) ==
    Trim(IF StartsWith(line, <<"%">>) THEN TrimStart(Tail(line)) ELSE line)

NotParsed ==
    [done |-> FALSE, cssLines |-> <<>>, cssString |-> <<>>, hasStyle |-> FALSE,
     scriptText |-> <<>>]

CodeBlockProcessor(src) ==
    LET lines == Split(src, Newline)
        codeStart == FindCodeStart(lines)
        codeLines == IF codeStart = -1 THEN <<>> ELSE Slice(lines, codeStart, Len(lines))
        cssPart == Slice(lines, 0, IF codeStart = -1 THEN Len(lines) ELSE codeStart)
        cssLines == FilterNonEmpty([i \in 1..Len(cssPart) |-> CssText(cssPart[i])])
        cssString == Join(cssLines, <<";", " ">>)
        cleanedSource == Join(codeLines, <<Newline>>)
    IN [done |-> TRUE, cssLines |-> cssLines, cssString |-> cssString,
        hasStyle |-> cssString # <<>>,
        scriptText |-> tidyTikzSource(cleanedSource)]

----------------------------------------------------------------------------
(* Values of the parts a specification does not exercise *)
ParseIdle ==
    /\ source = <<>>
    /\ parsed = NotParsed
    /\ ttext = <<>>
    /\ tprev = <<>>
    /\ tcount = 0

IsoIdle ==
    /\ graphics = <<>>
    /\ gorig = <<>>
    /\ isolated = <<>>
    /\ assigned = <<>>
    /\ uuidCount = 0

RenderIdle ==
    /\ settings = [invertColorsInDarkMode |-> FALSE]
    /\ reqState = <<>>
    /\ reqWin = <<>>
    /\ fired = <<>>
    /\ stageLog = <<>>
    /\ docWrites = <<>>
    /\ hfault = <<>>

LifeIdle ==
    /\ phase = "constructed"
    /\ layoutReady = FALSE
    /\ pendingReady = FALSE
    /\ subscribed = FALSE
    /\ wins = <<"main">>
    /\ docs = [w \in WinIds |-> EmptyDoc]
    /\ thrown = FALSE
    /\ injectCount = [w \in WinIds |-> 0]
    /\ handlerRuns = 0
    /\ opLog = <<>>

----------------------------------------------------------------------------
(* Plugin lifecycle: onload, the layout-ready callback, window-open, onunload *)

\* the callback given to workspace.onLayoutReady (main.ts 18-23)
LayoutReadyCallback ==
    /\ docs' = loadTikZJaxAllWindows(docs)
    /\ injectCount' = CountLoads(injectCount)
    /\ subscribed' = TRUE

\* variant: the "window-open" handler is attached by onload itself, before
\* the layout is ready
OnLoadStartEager ==
    /\ phase = "constructed"
    /\ phase' = "loading"
    /\ subscribed' = TRUE
    /\ UNCHANGED <<layoutReady, pendingReady, wins, docs, thrown,
                   injectCount, handlerRuns, opLog>>

\* onload up to "await this.loadSettings()"
OnLoadStart ==
    /\ phase = "constructed"
    /\ phase' = "loading"
    /\ UNCHANGED <<layoutReady, pendingReady, subscribed, wins, docs, thrown,
                   injectCount, handlerRuns, opLog>>

\* rest of onload: workspace.onLayoutReady(cb) runs cb at once when the layout
\* is ready, and queues it otherwise
OnLoadResume ==
    /\ phase = "loading"
    /\ phase' = "loaded"
    /\ IF layoutReady
       THEN LayoutReadyCallback /\ UNCHANGED pendingReady
       ELSE pendingReady' = TRUE /\ UNCHANGED <<docs, injectCount, subscribed>>
    /\ thrown' = FALSE
    /\ UNCHANGED <<layoutReady, wins, handlerRuns, opLog>>

\* host: the layout becomes ready and the queued callbacks run; the queue
\* belongs to the workspace, not to the plugin
LayoutReady ==
    /\ ~layoutReady
    /\ layoutReady' = TRUE
    /\ pendingReady' = FALSE
    /\ IF pendingReady
       THEN LayoutReadyCallback /\ thrown' = FALSE
       ELSE UNCHANGED <<docs, injectCount, subscribed, thrown>>
    /\ UNCHANGED <<phase, wins, handlerRuns, opLog>>

\* host: a pop-out window opens; "window-open" reaches the attached handler,
\* which calls loadTikZJax(window.document)
WindowOpen(w) ==
    /\ w \notin Range(wins)
    /\ Len(wins) < MaxWindows
    /\ wins' = Append(wins, w)
    /\ docs' = [docs EXCEPT ![w] = IF subscribed THEN loadTikZJax(EmptyDoc) ELSE EmptyDoc]
    /\ injectCount' = [injectCount EXCEPT ![w] = IF subscribed THEN 1 ELSE 0]
    /\ thrown' = IF subscribed THEN FALSE ELSE thrown
    /\ UNCHANGED <<phase, layoutReady, pendingReady, subscribed, handlerRuns, opLog>>

\* host: a pop-out window closes and leaves the floating split
WindowClose(w) ==
    /\ w \in Range(wins)
    /\ w # "main"
    /\ wins' = RemoveAt(wins, IndexOf(wins, w))
    /\ docs' = [docs EXCEPT ![w] = EmptyDoc]
    /\ injectCount' = [injectCount EXCEPT ![w] = 0]
    /\ UNCHANGED <<phase, layoutReady, pendingReady, subscribed, thrown,
                   handlerRuns, opLog>>

\* onunload (main.ts 31-34), then the host detaches what registerEvent had
\* registered; whether it still does so when onunload threw is the host's choice
OnUnload ==
    /\ phase = "loaded"
    /\ phase' = "unloaded"
    /\ LET r == unloadTikZJaxAllWindows(docs)
       IN /\ docs' = r.docs
          /\ thrown' = r.thrown
          /\ \E b \in (IF r.thrown THEN {subscribed, FALSE} ELSE {FALSE}) :
                subscribed' = b
    /\ UNCHANGED <<layoutReady, pendingReady, wins, injectCount, handlerRuns, opLog>>

\* engine: a 'tikzjax-load-finished' event is dispatched in window w; every
\* registered listener runs once
Dispatch(w) ==
    /\ w \in Range(wins)
    /\ handlerRuns' = Len(docs[w].listeners)
    /\ UNCHANGED <<phase, layoutReady, pendingReady, subscribed, wins, docs,
                   thrown, injectCount, opLog>>

Init ==
    /\ LifeIdle
    /\ ParseIdle
    /\ IsoIdle
    /\ RenderIdle

Next ==
    \/ OnLoadStart /\ UNCHANGED <<parseVars, isoVars, renderVars>>
    \/ OnLoadResume /\ UNCHANGED <<parseVars, isoVars, renderVars>>
    \/ LayoutReady /\ UNCHANGED <<parseVars, isoVars, renderVars>>
    \/ \E w \in WinIds : WindowOpen(w) /\ UNCHANGED <<parseVars, isoVars, renderVars>>
    \/ \E w \in WinIds : WindowClose(w) /\ UNCHANGED <<parseVars, isoVars, renderVars>>
    \/ OnUnload /\ UNCHANGED <<parseVars, isoVars, renderVars>>
    \/ \E w \in WinIds : Dispatch(w) /\ UNCHANGED <<parseVars, isoVars, renderVars>>

Spec == Init /\ [][Next]_vars

----------------------------------------------------------------------------
(* Direct calls of loadTikZJax / unloadTikZJax on one document, and the     *)
(* dispatch of a completion event on it                                    *)

InitBodies == {<<>>, <<"div">>, <<"div", "div">>}

Log(op, d) ==
    LET l == Append(opLog, [op |-> op, before |-> d])
    IN IF Len(l) > LogLen THEN Tail(l) ELSE l

CallLoad(w) ==
    /\ w \in Range(wins)
    /\ Count(docs[w].body, ScriptId) < MaxScripts
    /\ docs' = [docs EXCEPT ![w] = loadTikZJax(docs[w])]
    /\ injectCount' = [injectCount EXCEPT ![w] = IF @ < MaxScripts THEN @ + 1 ELSE @]
    /\ thrown' = FALSE
    /\ opLog' = Log("load", docs[w])
    /\ UNCHANGED <<phase, layoutReady, pendingReady, subscribed, wins, handlerRuns>>

CallUnload(w) ==
    /\ w \in Range(wins)
    /\ LET r == unloadTikZJax(docs[w])
       IN /\ docs' = [docs EXCEPT ![w] = r.doc]
          /\ thrown' = r.thrown
    /\ opLog' = Log("unload", docs[w])
    /\ UNCHANGED <<phase, layoutReady, pendingReady, subscribed, wins,
                   injectCount, handlerRuns>>

CallDispatch(w) ==
    /\ w \in Range(wins)
    /\ handlerRuns' = Len(docs[w].listeners)
    /\ opLog' = Log("dispatch", docs[w])
    /\ UNCHANGED <<phase, layoutReady, pendingReady, subscribed, wins, docs,
                   thrown, injectCount>>

InitDoc ==
    /\ phase = "loaded"
    /\ layoutReady = FALSE
    /\ pendingReady = FALSE
    /\ subscribed = FALSE
    /\ wins = <<"main">>
    /\ \E b \in InitBodies :
          docs = [w \in WinIds |-> IF w = "main" THEN [body |-> b, listeners |-> <<>>]
                                   ELSE EmptyDoc]
    /\ thrown = FALSE
    /\ injectCount = [w \in WinIds |-> 0]
    /\ handlerRuns = 0
    /\ opLog = <<>>
    /\ ParseIdle
    /\ IsoIdle
    /\ RenderIdle

NextDoc ==
    \/ \E w \in WinIds : CallLoad(w) /\ UNCHANGED <<parseVars, isoVars, renderVars>>
    \/ \E w \in WinIds : CallUnload(w) /\ UNCHANGED <<parseVars, isoVars, renderVars>>
    \/ \E w \in WinIds : CallDispatch(w) /\ UNCHANGED <<parseVars, isoVars, renderVars>>

SpecDoc == InitDoc /\ [][NextDoc]_vars

----------------------------------------------------------------------------
(* Claims about the lifecycle *)

HasScript(w) == Count(docs[w].body, ScriptId) > 0
HasListener(w) == Handler \in Range(docs[w].listeners)
OpenWins == Range(wins)

\* C1: once onunload has run, no open window's document holds the engine
\* script element or the completion listener, in that state and in every
\* later one.
C1_NothingDanglingAfterUnload ==
    phase = "unloaded" => \A w \in OpenWins : ~HasScript(w) /\ ~HasListener(w)

\* C2: every window's document holds at most one script element with id
\* 'tikzjax' and at most one completion listener, and loadTikZJax was applied
\* at most once to it.
C2_AtMostOneInstance ==
    \A w \in OpenWins :
        /\ Count(docs[w].body, ScriptId) <= 1
        /\ Len(docs[w].listeners) <= 1
        /\ injectCount[w] <= 1

\* a window opened before the layout was ready and the windows opened after it
\* each hold one instance
C2_Witness ==
    /\ phase = "loaded"
    /\ layoutReady
    /\ Len(wins) = MaxWindows
    /\ \A w \in OpenWins : Count(docs[w].body, ScriptId) = 1 /\ injectCount[w] = 1

\* C5: between startup and teardown every open window has had exactly one
\* inject once the layout-ready callback has run, and after teardown no step
\* injects into any window.
C5_NewWindowHandling ==
    /\ [](phase = "loaded" /\ layoutReady =>
            \A w \in OpenWins : injectCount[w] = 1 /\ HasScript(w))
    /\ [][phase = "unloaded" =>
            \A w \in WinIds :
                w \notin Range(wins) /\ w \in Range(wins') => injectCount'[w] = 0]_vars

----------------------------------------------------------------------------
(* The processor and tidyTikzSource applied to bounded code blocks *)

LineShapes ==
    { <<>>,
      <<"%", "a">>,
      <<" ", "%", "a">>,
      <<"%", " ", "a", " ">>,
      <<"%">>,
      <<"a">>,
      <<" ", "a", " ">>,
      <<"&", "n", "b">> \o Nbsp \o <<"s", "p", ";">>,
      Nbsp,
      <<"b">> \o Nbsp \o <<" ">> }

RECURSIVE LineSeqs(_)
LineSeqs(n) ==
    IF n = 0 THEN {<<>>}
    ELSE LET shorter == LineSeqs(n - 1)
         IN shorter \cup {Append(ls, l) : ls \in {x \in shorter : Len(x) = n - 1},
                                          l \in LineShapes}

Sources == {Join(ls, <<Newline>>) : ls \in LineSeqs(MaxLines) \ {<<>>}}

RunProcessor ==
    /\ ~parsed.done
    /\ parsed' = CodeBlockProcessor(source)
    /\ UNCHANGED <<source, ttext, tprev, tcount>>

RunTidy ==
    /\ tcount < MaxTidy
    /\ tprev' = ttext
    /\ ttext' = tidyTikzSource(ttext)
    /\ tcount' = tcount + 1
    /\ UNCHANGED <<source, parsed>>

InitParse ==
    /\ source \in Sources
    /\ parsed = NotParsed
    /\ ttext = source
    /\ tprev = <<>>
    /\ tcount = 0
    /\ LifeIdle
    /\ IsoIdle
    /\ RenderIdle

NextParse ==
    \/ RunProcessor /\ UNCHANGED <<lifeVars, isoVars, renderVars>>
    \/ RunTidy /\ UNCHANGED <<lifeVars, isoVars, renderVars>>

SpecParse == InitParse /\ [][NextParse]_vars

----------------------------------------------------------------------------
(* Claims about direct calls *)

NoInstance(d) == Count(d.body, ScriptId) = 0 /\ d.listeners = <<>>

\* the last n direct calls were ops, in this order
LastOps(ops) ==
    /\ Len(opLog) >= Len(ops)
    /\ \A i \in 1..Len(ops) : opLog[Len(opLog) - Len(ops) + i].op = ops[i]

\* the document before the n-th last call
BeforeLast(n) == opLog[Len(opLog) - n + 1].before

\* C3: loadTikZJax followed immediately by unloadTikZJax on a document with
\* no engine instance returns the document to its prior state, with no
\* script element and no completion listener.
C3_InjectRemoveRoundTrip ==
    (LastOps(<<"load", "unload">>) /\ NoInstance(BeforeLast(2))) =>
        /\ docs["main"] = BeforeLast(2)
        /\ NoInstance(docs["main"])
        /\ ~thrown

\* the round trip on a document whose body holds other elements
C3_Witness ==
    /\ LastOps(<<"load", "unload">>)
    /\ NoInstance(BeforeLast(2))
    /\ BeforeLast(2).body # <<>>
    /\ Count(BeforeLast(1).body, ScriptId) = 1

\* C4 as stated: two loadTikZJax calls in a row leave duplicate completion
\* listeners, and one completion event runs the handler twice.
C4_DuplicateListeners ==
    /\ LastOps(<<"load", "load">>) => Len(docs["main"].listeners) >= 2
    /\ LastOps(<<"load", "load", "dispatch">>) => handlerRuns = 2

\* C4 amended: two loadTikZJax calls in a row are not guarded and leave two
\* script elements with id 'tikzjax', but the listener, the same function for
\* both calls, is registered once, and one completion event runs the handler
\* once.
C4_DuplicateScriptSingleListener ==
    /\ LastOps(<<"load", "load">>) =>
          /\ Count(docs["main"].body, ScriptId) >= 2
          /\ Len(docs["main"].listeners) = 1
          /\ ~thrown
    /\ LastOps(<<"load", "load", "dispatch">>) => handlerRuns = 1

C4_Witness ==
    /\ LastOps(<<"load", "load", "dispatch">>)
    /\ Count(docs["main"].body, ScriptId) = 2
    /\ handlerRuns = 1

----------------------------------------------------------------------------
(* Claims about the parser and tidyTikzSource *)

\* the first non-whitespace character of the line is '%'
IsPctLine(line) ==
    \E i \in 1..Len(line) : line[i] = "%" /\ \A j \in 1..(i - 1) : IsWs(line[j])

\* the line without its leading whitespace, its leading '%' and the whitespace
\* that follows, trimmed
Declaration(line) ==
    LET i == CHOOSE i \in 1..Len(line) : line[i] = "%" /\ \A j \in 1..(i - 1) : IsWs(line[j])
    IN Trim(SubSeq(line, i + 1, Len(line)))

SourceLines == Split(source, Newline)

\* 1-based index of the first line that is not a '%' line, Len + 1 when none
SplitPoint ==
    IF \A i \in 1..Len(SourceLines) : IsPctLine(SourceLines[i])
    THEN Len(SourceLines) + 1
    ELSE CHOOSE k \in 1..Len(SourceLines) :
            /\ ~IsPctLine(SourceLines[k])
            /\ \A j \in 1..(k - 1) : IsPctLine(SourceLines[j])

\* C8: when every line starts with '%' after its leading whitespace, the
\* diagram source is empty and styleDeclarations is the sequence, in order, of
\* the non-empty declarations of the lines.
C8_AllCommentBlock ==
    (parsed.done /\ \A i \in 1..Len(SourceLines) : IsPctLine(SourceLines[i])) =>
        /\ parsed.scriptText = <<>>
        /\ parsed.cssLines =
             FilterNonEmpty([i \in 1..Len(SourceLines) |-> Declaration(SourceLines[i])])

\* C9: with k the first line that is not a '%' line, the declarations come
\* only from lines before k, in order, and the diagram source is tidy of the
\* lines from k on; when the first line is not a '%' line there is no
\* declaration and the diagram source is tidy of the whole input.
C9_SplitPoint ==
    parsed.done =>
        LET k == SplitPoint
            css == parsed.cssLines
        IN /\ parsed.scriptText =
                tidyTikzSource(Join(SubSeq(SourceLines, k, Len(SourceLines)), <<Newline>>))
           /\ \E f \in [1..Len(css) -> 1..(k - 1)] :
                /\ \A i \in 1..Len(css) : css[i] = CssText(SourceLines[f[i]])
                /\ \A i \in 1..(Len(css) - 1) : f[i] < f[i + 1]
           /\ k = 1 => css = <<>> /\ parsed.scriptText = tidyTikzSource(source)

\* style lines, a code line, and a later '%' line that stays in the diagram
C9_Witness ==
    /\ parsed.done
    /\ SplitPoint = 2
    /\ Len(SourceLines) = 3
    /\ IsPctLine(SourceLines[3])
    /\ parsed.cssLines # <<>>
    /\ "%" \in Range(parsed.scriptText)

\* C10: tidying an already tidied string returns it unchanged.
C10_TidyIdempotent ==
    tcount = 2 => ttext = tprev

----------------------------------------------------------------------------
(* Graphics: a root element and its child elements; innerHTML is their      *)
(* serialized text. Elements are written as start tags only.               *)

NoId == <<"-none-">>
IdName == <<"i", "d">>
HrefName == <<"h", "r", "e", "f">>
Quote == "\""

Attr(n, v) == [name |-> n, value |-> v]
Elem(t, as) == [tag |-> t, attrs |-> as]

RECURSIVE SerializeAttrs(_)
SerializeAttrs(as) ==
    IF as = <<>> THEN <<>>
    ELSE <<" ">> \o Head(as).name \o <<"=", Quote>> \o Head(as).value \o <<Quote>>
         \o SerializeAttrs(Tail(as))

\* reading svgEl.innerHTML
RECURSIVE Serialize(_)
Serialize(children) ==
    IF children = <<>> THEN <<>>
    ELSE <<"<">> \o Head(children).tag \o SerializeAttrs(Head(children).attrs) \o <<">">>
         \o Serialize(Tail(children))

ParseAttr(tok) ==
    LET eq == IndexOf(tok, "=")
    IN IF eq = 0 THEN Attr(tok, <<>>)
       ELSE Attr(SubSeq(tok, 1, eq - 1), SubSeq(tok, eq + 2, Len(tok) - 1))

\* the HTML parser keeps the first of several attributes with one name
RECURSIVE ParseAttrs(_, _)
ParseAttrs(toks, acc) ==
    IF toks = <<>> THEN acc
    ELSE LET a == ParseAttr(Head(toks))
         IN ParseAttrs(Tail(toks),
                IF \E i \in 1..Len(acc) : acc[i].name = a.name THEN acc
                ELSE Append(acc, a))

ParseTag(piece) ==
    LET toks == Split(Tail(piece), " ")
    IN Elem(Head(toks), ParseAttrs(Tail(toks), <<>>))

RECURSIVE ParsePieces(_)
ParsePieces(pieces) ==
    IF pieces = <<>> THEN <<>>
    ELSE IF Head(pieces) = <<>> THEN ParsePieces(Tail(pieces))
    ELSE <<ParseTag(Head(pieces))>> \o ParsePieces(Tail(pieces))

\* assigning svgEl.innerHTML: the children are rebuilt from the text
Parse(text) == ParsePieces(Split(text, ">"))

HasAttr(e, n) == \E i \in 1..Len(e.attrs) : e.attrs[i].name = n

AttrValue(e, n) ==
    e.attrs[CHOOSE i \in 1..Len(e.attrs) :
                e.attrs[i].name = n /\ \A j \in 1..(i - 1) : e.attrs[j].name # n].value

\* svgEl.querySelectorAll('[id]'): the descendants that carry an id attribute,
\* in document order; element.id of each
RECURSIVE SelectIds(_)
SelectIds(children) ==
    IF children = <<>> THEN <<>>
    ELSE (IF HasAttr(Head(children), IdName)
          THEN <<AttrValue(Head(children), IdName)>> ELSE <<>>)
         \o SelectIds(Tail(children))

\* uuidv4(): a fresh value; Serial stands for the part that makes it unique,
\* the letters for hexadecimal digits, which may be any
Serial == <<"1", "2", "3", "4", "5", "6", "7", "8", "9">>
HexLetters == {"a", "b"}
Uuid(n, h) == <<Serial[n], h>>

\* the loop of isolateIds (main.ts 198-203): element.id is read from the
\* elements selected before the loop, which each assignment of innerHTML
\* detaches, so every pass uses an original identifier
RECURSIVE IsolateLoop(_, _, _)
IsolateLoop(children, oldIds, newIds) ==
    IF oldIds = <<>> THEN children
    ELSE IsolateLoop(Parse(ReplaceAll(Serialize(children), Head(oldIds), Head(newIds))),
                     Tail(oldIds), Tail(newIds))

isolateIds(g, newIds) ==
    [rootId |-> g.rootId,
     children |-> IsolateLoop(g.children, SelectIds(g.children), newIds)]

----------------------------------------------------------------------------
(* isolateIds applied to the graphics of one document *)

IdElem(x) == Elem(<<"g">>, <<Attr(IdName, x)>>)
UseElem(x) == Elem(<<"u", "s", "e">>, <<Attr(HrefName, <<"#">> \o x)>>)
Graphic(r, cs) == [rootId |-> r, children |-> cs]

\* graphics as the engine renders them: identifiers distinct within a graphic,
\* references to identifiers of the graphic
GraphicShapes ==
    { Graphic(NoId, <<Elem(<<"g">>, <<>>)>>),
      Graphic(NoId, <<IdElem(<<"a">>), UseElem(<<"a">>)>>),
      Graphic(NoId, <<IdElem(<<"a">>), IdElem(<<"b">>), UseElem(<<"b">>)>>),
      Graphic(NoId, <<IdElem(<<"b">>), IdElem(<<"a">>), UseElem(<<"b">>)>>),
      Graphic(NoId, <<IdElem(<<"a">>), IdElem(<<"a", "b">>), UseElem(<<"a", "b">>)>>),
      Graphic(NoId, <<IdElem(<<"d">>), UseElem(<<"d">>)>>),
      Graphic(<<"r">>, <<IdElem(<<"a">>), UseElem(<<"r">>)>>),
      Graphic(<<"a", "b">>, <<IdElem(<<"a">>), UseElem(<<"a", "b">>)>>) }

GraphicIds == 1..NumGraphics

IsolateIds(g) ==
    /\ g \in GraphicIds
    /\ ~isolated[g]
    /\ LET n == Len(SelectIds(graphics[g].children))
       IN \E hs \in [1..n -> HexLetters] :
            LET newIds == [i \in 1..n |-> Uuid(uuidCount + i, hs[i])]
            IN /\ graphics' = [graphics EXCEPT ![g] = isolateIds(graphics[g], newIds)]
               /\ assigned' = [assigned EXCEPT ![g] = newIds]
               /\ uuidCount' = uuidCount + n
    /\ isolated' = [isolated EXCEPT ![g] = TRUE]
    /\ UNCHANGED gorig

InitIso ==
    /\ graphics \in [GraphicIds -> GraphicShapes]
    /\ gorig = graphics
    /\ isolated = [g \in GraphicIds |-> FALSE]
    /\ assigned = [g \in GraphicIds |-> <<>>]
    /\ uuidCount = 0
    /\ LifeIdle
    /\ ParseIdle
    /\ RenderIdle

NextIso ==
    \E g \in GraphicIds : IsolateIds(g) /\ UNCHANGED <<lifeVars, parseVars, renderVars>>

SpecIso == InitIso /\ [][NextIso]_vars

----------------------------------------------------------------------------
(* Claims about isolateIds *)

WithId(gr) == {i \in 1..Len(gr.children) : HasAttr(gr.children[i], IdName)}
ChildId(gr, i) == AttrValue(gr.children[i], IdName)

\* the identifiers of a graphic's elements, the root element included
IdsOf(gr) ==
    {ChildId(gr, i) : i \in WithId(gr)} \cup (IF gr.rootId = NoId THEN {} ELSE {gr.rootId})

UniqueIds(gr) ==
    /\ \A i, j \in WithId(gr) : i # j => ChildId(gr, i) # ChildId(gr, j)
    /\ \A i \in WithId(gr) : ChildId(gr, i) # gr.rootId

\* every reference of the original graphic now names the identifier that the
\* element it pointed to carries
RefsFollow(old, new) ==
    \A i \in 1..Len(old.children) :
        HasAttr(old.children[i], HrefName) =>
            /\ Len(new.children) = Len(old.children)
            /\ HasAttr(new.children[i], HrefName)
            /\ \A j \in WithId(old) :
                 AttrValue(old.children[i], HrefName) = <<"#">> \o ChildId(old, j) =>
                    /\ j \in WithId(new)
                    /\ AttrValue(new.children[i], HrefName) = <<"#">> \o ChildId(new, j)
            /\ AttrValue(old.children[i], HrefName) = <<"#">> \o old.rootId =>
                    AttrValue(new.children[i], HrefName) = <<"#">> \o new.rootId

\* C6: after isolateIds no two elements of the graphic share an identifier,
\* no old identifier remains, and every reference to an old identifier names
\* the new identifier of the element that carried it.
C6_IsolateUniqueAndRedirected ==
    \A g \in DOMAIN graphics :
        isolated[g] =>
            /\ UniqueIds(graphics[g])
            /\ IdsOf(graphics[g]) \cap IdsOf(gorig[g]) = {}
            /\ RefsFollow(gorig[g], graphics[g])

\* C7: after isolateIds has run on two graphics, their sets of identifiers,
\* root elements included, are disjoint.
C7_CrossDiagramIsolation ==
    \A g1, g2 \in DOMAIN graphics :
        (g1 # g2 /\ isolated[g1] /\ isolated[g2]) =>
            IdsOf(graphics[g1]) \cap IdsOf(graphics[g2]) = {}

----------------------------------------------------------------------------
(* Claims about faults and coverage of the lifecycle *)

\* C14: unloadTikZJax on a document without a script element with id
\* 'tikzjax' raises a fault and leaves the document, its listeners included,
\* as it was.
C14_RemoveWithoutScriptFaults ==
    (LastOps(<<"unload">>) /\ Count(BeforeLast(1).body, ScriptId) = 0) =>
        /\ thrown
        /\ docs["main"] = BeforeLast(1)

\* remove called twice after one inject, on a body with other elements
C14_Witness ==
    /\ LastOps(<<"load", "unload", "unload">>)
    /\ BeforeLast(1).body # <<>>
    /\ Count(BeforeLast(1).body, ScriptId) = 0
    /\ thrown

\* C15: a fault raised during unload/removal never propagates out of onunload
\* to the host.
C15_FaultsContained ==
    phase = "unloaded" => ~thrown

\* C16: a call of unloadTikZJaxAllWindows leaves every open window that held
\* an instance without script element and listener, and a call of
\* loadTikZJaxAllWindows leaves every open window with an instance.
C16_AllWindowsCovered ==
    [][/\ (phase = "loaded" /\ phase' = "unloaded") =>
            \A w \in OpenWins : HasScript(w) => ~HasScript(w)' /\ ~HasListener(w)'
       /\ (~subscribed /\ subscribed') =>
            \A w \in OpenWins : HasScript(w)' /\ HasListener(w)']_vars

\* onunload has torn down several windows that each held an instance
C16_Witness ==
    /\ phase = "unloaded"
    /\ ~thrown
    /\ Len(wins) >= 2
    /\ \A w \in OpenWins : injectCount[w] = 1 /\ ~HasScript(w) /\ ~HasListener(w)

\* C20: a window's document has the completion listener registered if and
\* only if its body holds the script element with id 'tikzjax'.
C20_ScriptListenerPaired ==
    \A w \in OpenWins : HasListener(w) <=> HasScript(w)

\* windows opened before and after the layout-ready callback hold both
C20_Witness ==
    /\ phase = "loaded"
    /\ subscribed
    /\ Len(wins) >= 2
    /\ \A w \in OpenWins : HasListener(w) /\ HasScript(w)

----------------------------------------------------------------------------
(* Claims about the passes of isolateIds *)

Contains(s, pat) ==
    \E i \in 1..(Len(s) - Len(pat) + 1) : SubSeq(s, i, i + Len(pat) - 1) = pat

\* innerHTML after the first k passes of the loop on graphic g
TextAfterPass(g, k) ==
    Serialize(IsolateLoop(gorig[g].children,
                          SubSeq(SelectIds(gorig[g].children), 1, k),
                          SubSeq(assigned[g], 1, k)))

\* C18: no later pass matches or alters a new identifier that an earlier pass
\* assigned: every uuid a pass has put into the markup is in the final markup
\* exactly as it was generated.
C18_NoChaining ==
    \A g \in DOMAIN graphics :
        isolated[g] =>
            \A k \in 1..Len(assigned[g]) :
                Contains(TextAfterPass(g, k), assigned[g][k]) =>
                    Contains(Serialize(graphics[g].children), assigned[g][k])

----------------------------------------------------------------------------
(* The completion-event handler postProcessSvg *)

SvgOpen == <<"<", "s", "v", "g">>
SvgClose == <<"<", "/", "s", "v", "g", ">">>
Black == <<Quote, "b", "l", "a", "c", "k", Quote>>
Hex000 == <<Quote, "#", "0", "0", "0", Quote>>
White == <<Quote, "w", "h", "i", "t", "e", Quote>>
HexFff == <<Quote, "#", "f", "f", "f", Quote>>
CurrentColor ==
    <<Quote, "c", "u", "r", "r", "e", "n", "t", "C", "o", "l", "o", "r", Quote>>
BackgroundPrimary ==
    <<Quote, "v", "a", "r", "(", "-", "-", "b", "a", "c", "k", "g", "r", "o", "u",
      "n", "d", "-", "p", "r", "i", "m", "a", "r", "y", ")", Quote>>

\* reading svgEl.outerHTML
SerializeOuter(gr) ==
    SvgOpen
    \o (IF gr.rootId = NoId THEN <<>> ELSE SerializeAttrs(<<Attr(IdName, gr.rootId)>>))
    \o <<">">> \o Serialize(gr.children) \o SvgClose

\* assigning svgEl.outerHTML: the element is replaced by the parsed markup
ParseOuter(text) ==
    LET els == ParsePieces(Split(text, ">"))
        root == Head(els)
    IN [rootId |-> IF HasAttr(root, IdName) THEN AttrValue(root, IdName) ELSE NoId,
        children |-> SubSeq(els, 2, Len(els) - 1)]

MatchAt(s, i, p) == i + Len(p) - 1 <= Len(s) /\ SubSeq(s, i, i + Len(p) - 1) = p

\* index of the leftmost match of either pattern, 0 when none
FirstMatch(s, p1, p2) ==
    LET hits == {i \in 1..Len(s) : MatchAt(s, i, p1) \/ MatchAt(s, i, p2)}
    IN IF hits = {} THEN 0 ELSE CHOOSE i \in hits : \A j \in hits : i <= j

\* String.prototype.replaceAll(/(p1|p2)/g, rep): one pass over the matches of
\* either pattern, left to right
RECURSIVE ReplaceEither(_, _, _, _)
ReplaceEither(s, p1, p2, rep) ==
    LET i == FirstMatch(s, p1, p2)
    IN IF i = 0 THEN s
       ELSE LET n == IF MatchAt(s, i, p1) THEN Len(p1) ELSE Len(p2)
            IN SubSeq(s, 1, i - 1) \o rep
               \o ReplaceEither(SubSeq(s, i + n, Len(s)), p1, p2, rep)

\* colorSVGinDarkMode (main.ts 162-171)
colorSVGinDarkMode(svg) ==
    ReplaceEither(ReplaceEither(svg, Hex000, Black, CurrentColor),
                  HexFff, White, BackgroundPrimary)

\* the minimizer: the default preset with identifier cleanup disabled; it
\* drops elements that carry nothing and keeps every identifier
RECURSIVE DropEmpty(_)
DropEmpty(els) ==
    IF els = <<>> THEN <<>>
    ELSE IF Head(els).attrs = <<>> THEN DropEmpty(Tail(els))
    ELSE <<Head(els)>> \o DropEmpty(Tail(els))

optimize(svg) ==
    LET gr == ParseOuter(svg)
    IN SerializeOuter([rootId |-> gr.rootId, children |-> DropEmpty(gr.children)])

\* optimizeSVG (main.ts 174-194)
optimizeSVG(svg) == optimize(svg)

\* postProcessSvg (main.ts 206-221) on graphic gr with the uuids newIds;
\* optOk: optimizeSVG returns, otherwise it throws
postProcessSvg(gr, newIds, invert, optOk) ==
    LET iso == isolateIds(gr, newIds)
        passes == Len(SelectIds(gr.children))
        svg0 == SerializeOuter(iso)
        svg1 == IF invert THEN colorSVGinDarkMode(svg0) ELSE svg0
        before == <<"isolate">> \o (IF invert THEN <<"recolor">> ELSE <<>>)
                  \o <<"minimize">>
    IN IF optOk
       THEN [graphic |-> ParseOuter(optimizeSVG(svg1)),
             stages |-> before \o <<"replace">>,
             writes |-> passes + 1,
             fault |-> FALSE]
       ELSE [graphic |-> iso, stages |-> before, writes |-> passes, fault |-> TRUE]

----------------------------------------------------------------------------
(* The rendering pipeline: code blocks are discovered, the engine renders   *)
(* them and dispatches a completion event per graphic, in any order, while *)
(* engines are injected into and removed from the windows                  *)

Requests == 1..NumRequests
RenderWins == <<"main", "w1">>
FillName == <<"f", "i", "l", "l">>
ColorElem(c) == Elem(<<"p">>, <<Attr(FillName, c)>>)

\* what the engine renders for a request
RenderShapes ==
    { Graphic(NoId, <<Elem(<<"g">>, <<>>), IdElem(<<"x">>), UseElem(<<"x">>),
                      ColorElem(<<"b", "l", "a", "c", "k">>)>>),
      Graphic(NoId, <<ColorElem(<<"w", "h", "i", "t", "e">>)>>) }

SampleBlock == <<"%", "a", Newline, "b">>

Rank(st) ==
    CASE st = "Idle" -> 0
      [] st = "Discovered" -> 1
      [] st = "PlaceholderBuilt" -> 2
      [] st = "Delegated" -> 3
      [] st = "CompletionReceived" -> 4
      [] st = "Rewritten" -> 5
      [] st = "Displayed" -> 6

\* variant: the handler takes the first graphic of the document
\* (document.querySelector) instead of the target of the event
EventTargetFirst(g) == 1

\* const svgEl = e.target: the graphic the event was dispatched for
EventTarget(g) == g

\* variant: a block that is rendered again resets its request
DiscoverAgain(g) ==
    /\ g \in Requests
    /\ reqState[g] \in {"Idle", "Delegated"}
    /\ reqState' = [reqState EXCEPT ![g] = "PlaceholderBuilt"]
    /\ parsed' = CodeBlockProcessor(source)
    /\ UNCHANGED <<lifeVars, source, ttext, tprev, tcount, isoVars, settings,
                   reqWin, fired, stageLog, docWrites, hfault>>

\* the code block processor runs for a block of window reqWin[g]: wrapper and
\* placeholder script are built (main.ts 97-128)
Discover(g) ==
    /\ g \in Requests
    /\ reqState[g] = "Idle"
    /\ reqState' = [reqState EXCEPT ![g] = "PlaceholderBuilt"]
    /\ parsed' = CodeBlockProcessor(source)
    /\ UNCHANGED <<lifeVars, source, ttext, tprev, tcount, isoVars, settings,
                   reqWin, fired, stageLog, docWrites, hfault>>

\* engine: the script injected into the window picks the placeholder up
Delegate(g) ==
    /\ g \in Requests
    /\ reqState[g] = "PlaceholderBuilt"
    /\ HasScript(reqWin[g])
    /\ reqState' = [reqState EXCEPT ![g] = "Delegated"]
    /\ UNCHANGED <<lifeVars, parseVars, isoVars, settings, reqWin, fired,
                   stageLog, docWrites, hfault>>

\* engine: the graphic of request g is rendered and 'tikzjax-load-finished'
\* is dispatched on it; the registered listener, if any, runs postProcessSvg
Complete(g) ==
    /\ g \in Requests
    /\ reqState[g] = "Delegated"
    /\ ~fired[g]
    /\ fired' = [fired EXCEPT ![g] = TRUE]
    /\ IF HasListener(reqWin[g])
       THEN LET t == EventTarget(g)
                n == Len(SelectIds(graphics[t].children))
            IN \E optOk \in BOOLEAN :
                 \* the graphics rendered here hold at most one id, so the
                 \* letters of a uuid meet no later pass: one letter suffices
                 LET newIds == [i \in 1..n |-> Uuid(uuidCount + i, "a")]
                     r == postProcessSvg(graphics[t], newIds,
                                         settings.invertColorsInDarkMode, optOk)
                 IN /\ graphics' = [graphics EXCEPT ![t] = r.graphic]
                    /\ assigned' = [assigned EXCEPT ![t] = newIds]
                    /\ isolated' = [isolated EXCEPT ![t] = TRUE]
                    /\ uuidCount' = uuidCount + n
                    /\ stageLog' = [stageLog EXCEPT ![t] = @ \o r.stages]
                    /\ docWrites' = [docWrites EXCEPT ![t] = @ + r.writes]
                    /\ hfault' = [hfault EXCEPT ![t] = r.fault]
                    /\ reqState' = [reqState EXCEPT ![t] =
                          IF r.fault THEN "CompletionReceived" ELSE "Displayed"]
       ELSE UNCHANGED <<graphics, assigned, isolated, uuidCount, stageLog,
                        docWrites, hfault, reqState>>
    /\ UNCHANGED <<lifeVars, parseVars, gorig, settings, reqWin>>

\* loadTikZJax on a window without an instance
Inject(w) ==
    /\ w \in Range(wins)
    /\ ~HasScript(w)
    /\ docs' = [docs EXCEPT ![w] = loadTikZJax(docs[w])]
    /\ UNCHANGED <<phase, layoutReady, pendingReady, subscribed, wins, thrown,
                   injectCount, handlerRuns, opLog, parseVars, isoVars, renderVars>>

\* unloadTikZJax on a window that holds an instance
Remove(w) ==
    /\ w \in Range(wins)
    /\ HasScript(w)
    /\ LET r == unloadTikZJax(docs[w])
       IN docs' = [docs EXCEPT ![w] = r.doc] /\ thrown' = r.thrown
    /\ UNCHANGED <<phase, layoutReady, pendingReady, subscribed, wins,
                   injectCount, handlerRuns, opLog, parseVars, isoVars, renderVars>>

\* the settings tab changes this.settings and calls saveSettings
SaveSettingChange ==
    /\ settings' = [invertColorsInDarkMode |-> ~settings.invertColorsInDarkMode]
    /\ UNCHANGED <<lifeVars, parseVars, isoVars, reqState, reqWin, fired,
                   stageLog, docWrites, hfault>>

InitRender ==
    /\ phase = "loaded"
    /\ layoutReady = TRUE
    /\ pendingReady = FALSE
    /\ subscribed = TRUE
    /\ wins = RenderWins
    /\ docs = [w \in WinIds |-> EmptyDoc]
    /\ thrown = FALSE
    /\ injectCount = [w \in WinIds |-> 0]
    /\ handlerRuns = 0
    /\ opLog = <<>>
    /\ source = SampleBlock
    /\ parsed = NotParsed
    /\ ttext = <<>>
    /\ tprev = <<>>
    /\ tcount = 0
    /\ graphics \in [Requests -> RenderShapes]
    /\ gorig = graphics
    /\ isolated = [g \in Requests |-> FALSE]
    /\ assigned = [g \in Requests |-> <<>>]
    /\ uuidCount = 0
    /\ settings = [invertColorsInDarkMode |-> FALSE]
    /\ reqState = [g \in Requests |-> "Idle"]
    /\ reqWin = [g \in Requests |-> RenderWins[((g - 1) % Len(RenderWins)) + 1]]
    /\ fired = [g \in Requests |-> FALSE]
    /\ stageLog = [g \in Requests |-> <<>>]
    /\ docWrites = [g \in Requests |-> 0]
    /\ hfault = [g \in Requests |-> FALSE]

NextRender ==
    \/ \E g \in Requests : Discover(g)
    \/ \E g \in Requests : Delegate(g)
    \/ \E g \in Requests : Complete(g)
    \/ \E w \in WinIds : Inject(w)
    \/ \E w \in WinIds : Remove(w)
    \/ SaveSettingChange

SpecRender == InitRender /\ [][NextRender]_vars

----------------------------------------------------------------------------
(* Claims about the rendering pipeline                                      *)

Handled(g) == ~fired[g] /\ fired'[g]

\* C11: a displayed graphic went through isolate, recolor (only with the
\* setting on), minimize and the replacement, in that order, and the document
\* saw exactly one update of it, the final replacement
C11_SingleUpdate ==
    \A g \in Requests : reqState[g] = "Displayed" =>
        /\ stageLog[g] \in {<<"isolate", "minimize", "replace">>,
                            <<"isolate", "recolor", "minimize", "replace">>}
        /\ docWrites[g] = 1

\* C12: handling the event of one graphic changes only that graphic: the
\* other graphics and requests, the settings and the documents stay as they
\* are, and the displayed markup is a function of the graphic's own input
C12_HandlerIndependence ==
    [][\A g \in Requests : Handled(g) =>
          /\ \A o \in Requests \ {g} :
                /\ graphics'[o] = graphics[o]
                /\ reqState'[o] = reqState[o]
                /\ stageLog'[o] = stageLog[o]
                /\ assigned'[o] = assigned[o]
          /\ settings' = settings
          /\ docs' = docs
          /\ reqState'[g] = "Displayed" =>
                graphics'[g] = postProcessSvg(gorig[g], assigned'[g],
                                   settings.invertColorsInDarkMode, TRUE).graphic]_vars

C12_Witness ==
    /\ \A g \in {1, 2} : reqState[g] = "Displayed" /\ Len(assigned[g]) = 1
    /\ assigned[2][1][1] = Serial[1]
    /\ assigned[1][1][1] = Serial[2]
    /\ graphics[1] # gorig[1]

\* C13: after a fault of the minimizer the graphic in the document is what the
\* engine produced
C13_FaultLeavesPrevious ==
    \A g \in Requests : hfault[g] => graphics[g] = gorig[g]

\* C17: a completion event that fires on a document whose engine was removed
\* runs no handler: the graphic stays as the engine produced it and no fault
\* is raised
C17_LateCompletionDropped ==
    [][\A g \in Requests : (Handled(g) /\ ~HasScript(reqWin[g])) =>
          /\ graphics' = graphics
          /\ graphics'[g] = gorig[g]
          /\ stageLog' = stageLog
          /\ docWrites' = docWrites
          /\ hfault' = hfault
          /\ thrown' = thrown]_vars

C17_Witness ==
    \E g \in Requests :
        /\ fired[g]
        /\ reqState[g] = "Delegated"
        /\ ~HasScript(reqWin[g])
        /\ graphics[g] = gorig[g]
        /\ stageLog[g] = <<>>
        /\ ~hfault[g]

\* C19: a request only moves forward, passes Delegated only by the completion
\* event of its own graphic, is rewritten at most once, never leaves
\* Displayed, and stays at Delegated as long as the event does not fire
C19_RequestStateMachine ==
    [][\A g \in Requests :
          /\ Rank(reqState'[g]) >= Rank(reqState[g])
          /\ reqState[g] = "Displayed" =>
                reqState'[g] = "Displayed" /\ graphics'[g] = graphics[g]
          /\ (Rank(reqState[g]) < Rank("CompletionReceived")
                /\ Rank(reqState'[g]) >= Rank("CompletionReceived")) => Handled(g)
          /\ (reqState[g] = "Delegated" /\ ~Handled(g)) => reqState'[g] = "Delegated"
          /\ Count(stageLog'[g], "isolate") <= 1]_vars

C19_Witness ==
    /\ reqState[1] = "Displayed"
    /\ stageLog[1] = <<"isolate", "recolor", "minimize", "replace">>
    /\ reqState[2] = "Delegated"
    /\ ~fired[2]

====
